---- MODULE Spec2Model ----
(***************************************************************************)
(* Model of the reconstruction loop of VolumeRaytraceLFM/reconstructions.py *)
(* (class Reconstructor): construction, reconstruct(), one_iteration(),     *)
(* visualize_and_save() and the learning-rate schedule.                     *)
(*                                                                          *)
(* Conventions                                                              *)
(*  - A tensor over the V voxels is a sequence of length V; the code's      *)
(*    0-based index i is position i + 1 (operator At).                      *)
(*  - An attribute that may be None or deleted is an option record          *)
(*    [none |-> BOOLEAN, v |-> value].                                      *)
(*  - Learning rates are integers in units of 1e-10 (at most 2e-4), losses are integers    *)
(*    in an arbitrary unit; floating-point rounding is not modelled.        *)
(*  - NaN is the integer NaN; it occurs only in optic-axis entries and in   *)
(*    their gradients, a NaN loss is not modelled.                          *)
(*  - nerf_mode is False throughout (the standard two-parameter-group mode).*)
(*  - The forward operator, the backward pass and the optimiser's update    *)
(*    rule are external: the data term and the gradient are chosen          *)
(*    nondeterministically from small sets, the update is an abstract       *)
(*    descent step driven by the gradient.                                  *)
(***************************************************************************)
EXTENDS Integers, Sequences, FiniteSets, TLC

VARIABLES
    pc,                   \* position of the control flow
    err,                  \* exception that ended the run ("" when none)
    raised_in,            \* the step that raised it
    apply_volume_mask,    \* constructor argument, self.apply_volume_mask
    all_prop_elements,    \* argument of reconstruct()
    rays_mask,            \* the mask computed by the ray geometry (rays.mask)
    rays,                 \* self.rays: has a mask, geometry ready, voxel indices
    vox_indices_file,     \* the file at vox_indices_by_mla_idx_path
    saved_vox_indices,    \* config_parameters/vox_indices_by_mla_idx.pkl written
    iteration_params,     \* the caller's dictionary, self.iteration_params
    mask,                 \* self.mask
    remove_large_arrs,    \* self.remove_large_arrs
    intensity_bool,       \* self.intensity_bool
    ret_img_meas,         \* self.ret_img_meas
    azim_img_meas,        \* self.azim_img_meas
    azim_img_pred,        \* self.azim_img_pred: unset, a new array, or the
                          \* very object self.azim_img_meas
    volume_initial_guess, \* self.volume_initial_guess
    volume_pred,          \* self.volume_pred
    optimizer,            \* param_groups[g]["lr"], g = 1 optic axis, 2 birefringence
    scheduler,            \* ReduceLROnPlateau state
    initial_lr,           \* initial_lr_0, initial_lr_1
    lr_local,             \* lr_0, lr_1 of reconstruct()
    ep,                   \* loop variable of reconstruct (0: not yet bound)
    img_list,             \* output of the forward operator in this iteration
    loss,                 \* (loss, data_term, regularization_term) of this iteration
    adjusted_lrs,         \* adjusted_lrs of this iteration
    reg_term_values,      \* self.reg_term_values
    loss_total_list,
    loss_data_term_list,
    loss_reg_term_list,
    adjusted_lrs_list,
    regularization_terms_csv, \* rows of regularization_terms.csv
    saved_volumes         \* the save_as_file calls, in order

vars == <<pc, err, raised_in, apply_volume_mask, all_prop_elements, rays_mask,
          rays, vox_indices_file, saved_vox_indices, iteration_params, mask, remove_large_arrs, intensity_bool,
          volume_initial_guess, volume_pred, optimizer, scheduler, initial_lr,
          lr_local, ep, img_list, loss, adjusted_lrs, reg_term_values,
          loss_total_list, loss_data_term_list, loss_reg_term_list,
          adjusted_lrs_list, regularization_terms_csv, saved_volumes,
          ret_img_meas, azim_img_meas, azim_img_pred>>

----------------------------------------------------------------------------
(* Bounds of the model *)

\* number of voxels of the volume
NVox == 2
\* largest n_epochs of the short runs
MaxEpochs == 2
\* n_epochs of the long runs (two plateau reductions need 2 * patience + 3)
SchedEpochs == 23
\* largest birefringence value of the initial volume
MaxBir == 1
\* how often the data term may differ from that of the epoch before
MaxLossChanges == 1

(* Program constants *)

\* warmup_epochs = 10
warmup_epochs == 10
\* warmup_start_proportion = 0.1, in percent
warmup_start_proportion == 10
\* ReduceLROnPlateau(factor=0.5), in percent
factor == 50
\* ReduceLROnPlateau(patience=10)
patience == 10
\* ReduceLROnPlateau(threshold=1e-4): 1 / threshold
threshold_inv == 10000
\* ReduceLROnPlateau(min_lr=1e-6), in units of 1e-10
min_lr == 10000
\* ReduceLROnPlateau(eps=1e-8), in units of 1e-10
eps == 100
\* iteration_params.get("save_freq", 5)
DefaultSaveFreq == 5

----------------------------------------------------------------------------
(* Values *)

Vox == 0 .. (NVox - 1)
BirVals == 0 .. MaxBir
\* data-fidelity values the forward operator can produce; 9999 and 10000
\* differ by exactly the relative threshold of the scheduler
DataVals == {0, 9999, 10000}
\* gradient of a trainable birefringence element after the backward pass
GradVals == {0, 1}

\* the float NaN, as a value outside the range of every other entry
NaN == -1000
\* torch.isnan on one entry, and on any component of a vector
IsNan(x) == x = NaN
HasNan(v) == \E i \in 1 .. Len(v) : IsNan(v[i])
\* gradient of the optic axis when the birefringence gradient is g: the
\* backward pass of the forward operator can produce NaN
AxisGradVals(g) == IF g = 0 THEN {0} ELSE {g, NaN}

NoneT == [none |-> TRUE, v |-> <<>>]
Some(x) == [none |-> FALSE, v |-> x]

At(t, i) == t[i + 1]

RECURSIVE SumSeq(_)
SumSeq(s) == IF s = <<>> THEN 0 ELSE Head(s) + SumSeq(Tail(s))

Last(s) == s[Len(s)]

Zeros(n) == [i \in 1 .. n |-> 0]
ZeroVecs(n) == [i \in 1 .. n |-> <<0, 0, 0>>]

Max(a, b) == IF a >= b THEN a ELSE b

----------------------------------------------------------------------------
(* Tensor helpers *)

\* torch.where(mask)[0]: the positions where mask is True, ascending (0-based)
RECURSIVE WhereFrom(_, _)
WhereFrom(m, i) ==
    IF i >= Len(m) THEN <<>>
    ELSE (IF At(m, i) THEN <<i>> ELSE <<>>) \o WhereFrom(m, i + 1)

Where(m) == WhereFrom(m, 0)

\* an inverse lookup with one entry per voxel and none beyond
IdxTensorSameLength(m) ==
    LET act == Where(m)
    IN  [p \in 1 .. Len(m) |->
            IF \E k \in 1 .. Len(act) : act[k] = p - 1
            THEN (CHOOSE k \in 1 .. Len(act) : act[k] = p - 1) - 1
            ELSE -1]

\* idx_tensor = full(max_index + 1, -1); idx_tensor[active_indices] = arange(k)
IdxTensor(m) ==
    LET act == Where(m)
    IN  [p \in 1 .. (Len(m) + 1) |->
            IF \E k \in 1 .. Len(act) : act[k] = p - 1
            THEN (CHOOSE k \in 1 .. Len(act) : act[k] = p - 1) - 1
            ELSE -1]

\* t[active_indices]
Gather(t, act) == [k \in 1 .. Len(act) |-> At(t, act[k])]

\* t[active_indices] = vals
Scatter(t, act, vals) ==
    [p \in 1 .. Len(t) |->
        IF \E k \in 1 .. Len(act) : act[k] = p - 1
        THEN vals[CHOOSE k \in 1 .. Len(act) : act[k] = p - 1]
        ELSE t[p]]

\* volume.Delta_n * self.mask
MaskMul(t, m) == [p \in 1 .. Len(t) |-> IF m[p] THEN t[p] ELSE 0]

Norm2(v) == v[1] * v[1] + v[2] * v[2] + v[3] * v[3]

ISqrt(n) == CHOOSE r \in 0 .. n : r * r <= n /\ (r + 1) * (r + 1) > n

\* v / ||v||, exact for the axis-aligned vectors of the model; a NaN
\* component makes the norm, and with it every component, NaN
Normalize(v) ==
    IF HasNan(v) THEN <<NaN, NaN, NaN>>
    ELSE IF Norm2(v) = 0 THEN v
    ELSE LET n == ISqrt(Norm2(v)) IN <<v[1] \div n, v[2] \div n, v[3] \div n>>

\* stay_on_sphere: every column divided by its norm, in place
StayOnSphere(t) == [p \in 1 .. Len(t) |-> Normalize(t[p])]

----------------------------------------------------------------------------
(* Learning-rate schedule *)

\* initial_lr * (warmup_start_proportion
\*               + (1 - warmup_start_proportion) * (ep / warmup_epochs))
WarmupLr(initial, e) ==
    (initial * (warmup_start_proportion * warmup_epochs
                + (100 - warmup_start_proportion) * e))
        \div (100 * warmup_epochs)

\* a warmup that goes on for five epochs more
InWarmupLonger(e) == e < warmup_epochs + 5

\* the guard of the warmup branch
InWarmup(e) == e < warmup_epochs

\* ReduceLROnPlateau.is_better, mode "min", threshold_mode "rel":
\* a < best * (1 - threshold); best starts at +inf
IsBetter(a, sch) ==
    sch.best_inf \/ a * threshold_inv < sch.best * (threshold_inv - 1)

\* a reduction that forgets the min_lr floor
ReduceLrNoFloor(old) ==
    LET new == (old * factor) \div 100
    IN  IF old - new > eps THEN new ELSE old

\* ReduceLROnPlateau._reduce_lr for one parameter group
ReduceLr(old) ==
    LET new == Max((old * factor) \div 100, min_lr)
    IN  IF old - new > eps THEN new ELSE old

\* a scheduler that reduces as soon as num_bad_epochs reaches patience
ShouldReduceAtPatience(nbad) == nbad >= patience

\* num_bad_epochs > patience
ShouldReduce(nbad) == nbad > patience

\* ReduceLROnPlateau.step(metrics): the scheduler state after the call
SchedulerAfter(a, sch) ==
    LET better == IsBetter(a, sch)
        nbad == IF better THEN 0 ELSE sch.num_bad_epochs + 1
    IN  [best_inf |-> FALSE,
         best |-> IF better THEN a ELSE sch.best,
         num_bad_epochs |-> IF ShouldReduce(nbad) THEN 0 ELSE nbad,
         last_epoch |-> sch.last_epoch + 1]

\* ReduceLROnPlateau.step(metrics): the learning rates after the call
LrAfter(a, sch, lrs) ==
    LET better == IsBetter(a, sch)
        nbad == IF better THEN 0 ELSE sch.num_bad_epochs + 1
    IN  IF ShouldReduce(nbad)
        THEN [g \in 1 .. 2 |-> ReduceLr(lrs[g])]
        ELSE lrs

----------------------------------------------------------------------------
(* Loss *)

\* the regularization: the registry holds one function, the L1 norm of the
\* birefringence being optimised
RegLoss(vol) ==
    IF ~vol.birefringence_active.none THEN SumSeq(vol.birefringence_active.v)
    ELSE IF ~vol.Delta_n.none THEN SumSeq(vol.Delta_n.v)
    ELSE 0

\* params["regularization_weight"] after the list has been replaced by its head
WeightOf(params) == params.regularization_weight.v[1]

\* regularization_term = params["regularization_weight"] * reg_loss
RegularizationTerm(params, reg_loss) == WeightOf(params) * reg_loss

\* a total loss that applies the regularization weight a second time
TotalLossWeightedTwice(data_term, regularization_term) ==
    data_term + 2 * regularization_term

\* loss = data_term + regularization_term
TotalLoss(data_term, regularization_term) == data_term + regularization_term

\* angles are integers in units of pi / 4: the angle pi
Pi == 4

\* 1000 * cos(k * pi / 4) for k = 0 .. 7
CosTable == <<1000, 707, 0, -707, -1000, -707, 0, 707>>

\* torch.cos and torch.sin, times 1000; both have period 2 * pi
Cos(x) == CosTable[(x % (2 * Pi)) + 1]
Sin(x) == Cos(x + 3 * (Pi \div 2))

\* a transform that uses the azimuth itself and not twice the azimuth
TransformSingleAngle(ret, azim) ==
    [cosine_term |-> [p \in 1 .. Len(ret) |-> ret[p] * Cos(azim[p])],
     sine_term |-> [p \in 1 .. Len(ret) |-> ret[p] * Sin(azim[p])]]

\* transform_ret_azim_to_vector_form: ret * cos(2 * azim), ret * sin(2 * azim)
TransformRetAzimToVectorForm(ret, azim) ==
    [cosine_term |-> [p \in 1 .. Len(ret) |-> ret[p] * Cos(2 * azim[p])],
     sine_term |-> [p \in 1 .. Len(ret) |-> ret[p] * Sin(2 * azim[p])]]

\* F.mse_loss: the mean of the squared differences
MseLoss(a, b) ==
    SumSeq([p \in 1 .. Len(a) |-> (a[p] - b[p]) * (a[p] - b[p])]) \div Len(a)

\* vector_loss(ret_pred, azim_pred) against the targets set on the loss object
VectorLoss(ret_pred, azim_pred, ret_gt, azim_gt) ==
    LET gt == TransformRetAzimToVectorForm(ret_gt, azim_gt)
        pred == TransformRetAzimToVectorForm(ret_pred, azim_pred)
    IN  MseLoss(pred.cosine_term, gt.cosine_term)
            + MseLoss(pred.sine_term, gt.sine_term)

\* how often consecutive entries of a list differ
RECURSIVE Changes(_)
Changes(s) ==
    IF Len(s) < 2 THEN 0
    ELSE (IF s[1] # s[2] THEN 1 ELSE 0) + Changes(Tail(s))

----------------------------------------------------------------------------
(* The optimiser's update, abstracted: an element with a zero gradient stays, *)
(* one with a nonzero gradient takes a descent step; the optic axis leaves   *)
(* the unit sphere until it is projected back.                               *)

StepBir(b, g) == IF g = 0 \/ b - g < 0 THEN b ELSE b - g

Twice(x) == IF IsNan(x) THEN NaN ELSE 2 * x

StepAxis(a, g) ==
    IF g = 0 THEN a
    ELSE IF IsNan(g) THEN <<NaN, NaN, NaN>>
    ELSE <<Twice(a[3]), Twice(a[1]), Twice(a[2])>>

\* the planar components move towards the axial direction
StepPlanar(a, g) ==
    IF g = 0 THEN a
    ELSE IF IsNan(g) THEN <<NaN, NaN>>
    ELSE <<0, 0>>

StepPlanarAll(t, gr) == [p \in 1 .. Len(t) |-> StepPlanar(t[p], gr[p])]

StepBirAll(t, gr) == [p \in 1 .. Len(t) |-> StepBir(t[p], gr[p])]

StepAxisAll(t, gr) == [p \in 1 .. Len(t) |-> StepAxis(t[p], gr[p])]

----------------------------------------------------------------------------
(* Volumes *)

VolumeOf(dn, oa) ==
    [Delta_n |-> Some(dn),
     optic_axis |-> Some(oa),
     Delta_n_requires_grad |-> TRUE,
     optic_axis_requires_grad |-> TRUE,
     Delta_n_grad |-> NoneT,
     optic_axis_grad |-> NoneT,
     indices_active |-> NoneT,
     active_idx2spatial_idx_tensor |-> NoneT,
     birefringence_active |-> NoneT,
     optic_axis_active |-> NoneT,
     birefringence_active_grad |-> NoneT,
     optic_axis_active_grad |-> NoneT,
     birefringence_active_requires_grad |-> FALSE,
     optic_axis_active_requires_grad |-> FALSE,
     optic_axis_planar |-> NoneT,
     optic_axis_planar_requires_grad |-> FALSE,
     optic_axis_planar_grad |-> NoneT,
     members_to_learn |-> <<>>]

\* volume.Delta_n = torch.nn.Parameter(volume.Delta_n * self.mask)
ApplyMaskToVolume(vol, m) ==
    [vol EXCEPT !.Delta_n = Some(MaskMul(vol.Delta_n.v, m)),
                !.Delta_n_requires_grad = TRUE,
                !.Delta_n_grad = NoneT]

\* a create_parameters_from_mask that clears the mask it was given
MaskAfterParametersCleared(m) == [p \in 1 .. Len(m) |-> FALSE]

\* the mask argument of create_parameters_from_mask after the call: it is
\* only read (torch.where, mask.size)
MaskAfterParameters(m) == m

\* optic_axis_active[1:, :]: the two planar components of every column
PlanarOf(t) == [k \in 1 .. Len(t) |-> <<t[k][2], t[k][3]>>]

\* create_parameters_from_mask; with two optic-axis components the active
\* optic axis is a plain slice and optic_axis_planar is the Parameter
CreateParametersFromMask(vol, m, two) ==
    LET act == Where(m)
    IN  [vol EXCEPT
            !.indices_active = Some(act),
            !.active_idx2spatial_idx_tensor = Some(IdxTensor(m)),
            !.optic_axis_requires_grad = IF two THEN FALSE ELSE @,
            !.optic_axis_active = Some(Gather(vol.optic_axis.v, act)),
            !.optic_axis_active_requires_grad = ~two,
            !.optic_axis_planar =
                IF two THEN Some(PlanarOf(Gather(vol.optic_axis.v, act))) ELSE @,
            !.optic_axis_planar_requires_grad = two,
            !.birefringence_active = Some(Gather(vol.Delta_n.v, act)),
            !.birefringence_active_requires_grad = TRUE]

\* del self.volume_pred.Delta_n; del self.volume_pred.optic_axis
DeleteLargeArrays(vol) ==
    [vol EXCEPT !.Delta_n = NoneT, !.optic_axis = NoneT,
                !.Delta_n_grad = NoneT, !.optic_axis_grad = NoneT]

\* an initial guess whose gradient tracking stays on
TurnOffInitialVolumeGradientsSkipped(vol) == vol

\* _turn_off_initial_volume_gradients
TurnOffInitialVolumeGradients(vol) ==
    [vol EXCEPT !.Delta_n_requires_grad = FALSE,
                !.optic_axis_requires_grad = FALSE]

\* full-grid tensors whose gradient tracking stays on
FreezeFullGridSkipped(vol) == vol

\* Delta_n.requires_grad = False; optic_axis.requires_grad = False
FreezeFullGrid(vol) ==
    [vol EXCEPT !.Delta_n_requires_grad = FALSE,
                !.optic_axis_requires_grad = FALSE]

RECURSIVE AppendMissing(_, _)
AppendMissing(members, names) ==
    IF names = <<>> THEN members
    ELSE AppendMissing(
            IF \E k \in 1 .. Len(members) : members[k] = Head(names)
            THEN members ELSE Append(members, Head(names)),
            Tail(names))

ParamList(all_prop, two) ==
    IF all_prop THEN <<"Delta_n", "optic_axis">>
    ELSE IF two THEN <<"birefringence_active", "optic_axis_planar">>
    ELSE <<"birefringence_active", "optic_axis_active">>

SpecifyVariablesToLearn(vol, names) ==
    [vol EXCEPT !.members_to_learn = AppendMissing(vol.members_to_learn, names)]

\* the variables of reconstruct() before the optimizer is set up
VolumeForOptimizer(vol, m, all_prop, remove, two) ==
    SpecifyVariablesToLearn(
        IF all_prop THEN vol
        ELSE IF remove
             THEN DeleteLargeArrays(CreateParametersFromMask(vol, m, two))
             ELSE FreezeFullGrid(CreateParametersFromMask(vol, m, two)),
        ParamList(all_prop, two))

KeepOpticAxisOnSphere(vol) ==
    IF ~vol.indices_active.none
    THEN [vol EXCEPT !.optic_axis_active = Some(StayOnSphere(vol.optic_axis_active.v))]
    ELSE [vol EXCEPT !.optic_axis = Some(StayOnSphere(vol.optic_axis.v))]

\* the axial component sqrt(1 - planar_1^2 - planar_2^2) in front of the
\* planar ones; the square root of a negative number is NaN
FillVector(pl) ==
    LET rad == 1 - pl[1] * pl[1] - pl[2] * pl[2]
    IN  <<IF IsNan(pl[1]) \/ IsNan(pl[2]) \/ rad < 0 THEN NaN ELSE ISqrt(rad),
          pl[1], pl[2]>>

\* fill_vector_based_on_nonaxial(optic_axis_active, optic_axis_planar), in place
FillVectorBasedOnNonaxial(planar) == [k \in 1 .. Len(planar) |-> FillVector(planar[k])]

\* fill_optaxis_component
FillOptaxisComponent(vol) ==
    [vol EXCEPT !.optic_axis_active =
                    Some(FillVectorBasedOnNonaxial(vol.optic_axis_planar.v))]

\* if self.two_optic_axis_components: fill_optaxis_component(volume), then
\* keep_optic_axis_on_sphere(volume)
ProjectOf(vol, two) ==
    KeepOpticAxisOnSphere(IF two THEN FillOptaxisComponent(vol) ELSE vol)

PrepareVolumeForRecon(vol, two) == ProjectOf(vol, two)

SupportedOptimizers ==
    {"Adam", "SGD", "Adagrad", "ASGD", "Nadam", "Adamax", "AdamW", "RMSprop"}

\* an optimizer_setup that lets "LBFGS" through
OptimizerRejectedUnknownOnly(name) ==
    name \notin SupportedOptimizers \cup {"LBFGS"}

\* optimizer_setup raises ValueError for "LBFGS" and for a name not in the table
OptimizerRejected(name) == name = "LBFGS" \/ name \notin SupportedOptimizers

\* a constructor that never refuses a combination of modes
ConflictingModesNever(remove, avm) == FALSE

\* the mutual exclusion checked by the constructor
ConflictingModes(remove, avm) == remove /\ avm

----------------------------------------------------------------------------
(* Initial states: the inputs of one run *)

InitialVolume ==
    VolumeOf([p \in 1 .. NVox |-> 1 + ((p - 1) % MaxBir)],
             [p \in 1 .. NVox |-> IF p % 2 = 1 THEN <<0, 0, 2>> ELSE <<0, 1, 0>>])

Masks == [1 .. NVox -> BOOLEAN]

Weight(w) == [is_list |-> FALSE, v |-> <<w>>]
WeightList(l) == [is_list |-> TRUE, v |-> l]

\* a key of the dictionary that is absent, or present with a string value
NoKey == [present |-> FALSE, v |-> ""]
Key(x) == [present |-> TRUE, v |-> x]

BaseParams ==
    [optimizer |-> "Nadam",
     lr_optic_axis |-> 1000000,
     lr_birefringence |-> 1000000,
     n_epochs |-> 1,
     regularization_weight |-> Weight(1),
     save_freq |-> DefaultSaveFreq,
     free_memory_by_del_large_arrays |-> FALSE,
     datafidelity |-> "vector",
     two_optic_axis_components |-> FALSE,
     from_simulation |-> FALSE,
     vox_indices_by_mla_idx_path |-> NoKey]

\* a ray tracer that already carries its voxel mask
RaysWithMask ==
    [has_mask |-> TRUE, MLA_volume_geometry_ready |-> FALSE,
     vox_indices_by_mla_idx |-> "unset",
     nonzero_ret |-> {}, repeated_zero_ret |-> {}, zero_ret_lenslet |-> {}]

\* the voxels a mask selects (0-based)
VoxelsOf(m) == {p - 1 : p \in {q \in 1 .. Len(m) : m[q]}}

\* an image attribute that is not bound yet, one bound to a new array, and
\* one bound to the object self.azim_img_meas
NoImage == [none |-> TRUE, alias |-> FALSE, v |-> <<>>]
OwnImage(x) == [none |-> FALSE, alias |-> FALSE, v |-> x]
MeasuredAzimuthItself == [none |-> FALSE, alias |-> TRUE, v |-> <<>>]

\* measured retardance and azimuth images: one pixel without retardance
MeasuredImages == [ret |-> <<0, 2>>, azim |-> <<3, 1>>]

\* measured images with no, with one, and with only zero-retardance pixels
ImagePairs ==
    {[ret |-> <<1, 2>>, azim |-> <<3, 1>>], MeasuredImages,
     [ret |-> <<0, 0>>, azim |-> <<3, 1>>]}

Config(avm, all_prop, m, params) ==
    [apply_volume_mask |-> avm, all_prop_elements |-> all_prop,
     rays_mask |-> m, params |-> params, rays |-> RaysWithMask,
     vox_indices_file |-> "missing", images |-> MeasuredImages]

\* short runs: the modes, the mask, the epoch count and the checkpoint cadence
ModeConfigs ==
    { Config(avm, ap, m,
             [BaseParams EXCEPT !.free_memory_by_del_large_arrays = fm,
                                !.n_epochs = n, !.save_freq = sf]) :
        avm \in BOOLEAN, ap \in BOOLEAN, fm \in BOOLEAN,
        m \in Masks, n \in 0 .. MaxEpochs,
        sf \in {1, 2, DefaultSaveFreq} }

\* short runs: the optimizer name
OptimizerConfigs ==
    { Config(FALSE, FALSE, [p \in 1 .. NVox |-> TRUE],
             [BaseParams EXCEPT !.optimizer = o]) :
        o \in {"Adam", "SGD", "LBFGS", "Lion"} }

\* short runs: the loss configuration
LossConfigs ==
    { [Config(FALSE, FALSE, [p \in 1 .. NVox |-> TRUE],
              [BaseParams EXCEPT !.regularization_weight = w, !.datafidelity = d,
                                 !.n_epochs = n])
          EXCEPT !.images = im] :
        w \in {Weight(0), Weight(2), WeightList(<<2, 1>>)},
        d \in {"vector", "intensity"}, n \in 1 .. MaxEpochs,
        im \in ImagePairs }

\* short runs: the two-component mode; the mask selects voxels whose initial
\* planar components lie inside the unit circle
TwoComponentConfigs ==
    { Config(FALSE, FALSE, m,
             [BaseParams EXCEPT !.two_optic_axis_components = TRUE,
                                !.n_epochs = n]) :
        m \in {mm \in Masks : \A p \in 1 .. NVox : mm[p] => p % 2 = 0},
        n \in 0 .. 1 }

\* short runs: a ray tracer without a mask, so that the constructor builds it;
\* the path of the voxel-index file is absent, empty or given, and the file
\* is missing, malformed or valid
MaskFileConfigs ==
    { [Config(FALSE, FALSE, m,
              [BaseParams EXCEPT !.vox_indices_by_mla_idx_path = pth])
          EXCEPT !.rays = [has_mask |-> FALSE, MLA_volume_geometry_ready |-> r,
                           vox_indices_by_mla_idx |-> "unset",
                           nonzero_ret |-> VoxelsOf(m),
                           repeated_zero_ret |-> {}, zero_ret_lenslet |-> {}],
                 !.vox_indices_file = f] :
        m \in Masks, r \in BOOLEAN,
        pth \in {NoKey, Key(""), Key("vox_indices.pkl")},
        f \in {"missing", "malformed", "valid"} }

\* short runs: the per-lenslet mask; the ray tracer reports the voxels on a
\* ray with nonzero retardance, those on repeated zero-retardance rays and
\* those of zero-retardance lenslets
LensletConfigs ==
    { [Config(FALSE, FALSE, [p \in 1 .. NVox |-> FALSE],
              [BaseParams EXCEPT !.from_simulation = fs, !.n_epochs = 0])
          EXCEPT !.rays = [has_mask |-> FALSE, MLA_volume_geometry_ready |-> FALSE,
                           vox_indices_by_mla_idx |-> "unset",
                           nonzero_ret |-> nz,
                           repeated_zero_ret |-> rz, zero_ret_lenslet |-> zl]] :
        fs \in BOOLEAN, nz \in SUBSET Vox, rz \in SUBSET Vox, zl \in SUBSET Vox }

\* long runs: the learning rates; the mask selects no voxel, so that only the
\* loss sequence varies
LrPairs == {<<1000000, 15000>>, <<11000, 5000>>, <<40000, 1000000>>}

ScheduleConfigs ==
    { Config(FALSE, FALSE, [p \in 1 .. NVox |-> FALSE],
             [BaseParams EXCEPT !.lr_optic_axis = l[1], !.lr_birefringence = l[2],
                                !.n_epochs = n]) :
        l \in LrPairs, n \in {SchedEpochs} }

ShortConfigs ==
    ModeConfigs \cup OptimizerConfigs \cup LossConfigs \cup MaskFileConfigs
        \cup TwoComponentConfigs \cup LensletConfigs

\* the state before construction, apart from pc, ep and volume_pred
InitRest(c) ==
    /\ err = ""
    /\ raised_in = ""
    /\ apply_volume_mask = c.apply_volume_mask
    /\ all_prop_elements = c.all_prop_elements
    /\ rays_mask = c.rays_mask
    /\ rays = c.rays
    /\ vox_indices_file = c.vox_indices_file
    /\ saved_vox_indices = FALSE
    /\ iteration_params = c.params
    /\ mask = <<>>
    /\ remove_large_arrs = FALSE
    /\ intensity_bool = FALSE
    /\ ret_img_meas = c.images.ret
    /\ azim_img_meas = c.images.azim
    /\ azim_img_pred = NoImage
    /\ volume_initial_guess = InitialVolume
    /\ optimizer = NoneT
    /\ scheduler = [best_inf |-> TRUE, best |-> 0, num_bad_epochs |-> 0,
                    last_epoch |-> 0]
    /\ initial_lr = <<0, 0>>
    /\ lr_local = <<0, 0>>
    /\ img_list = 0
    /\ loss = [total |-> 0, data_term |-> 0, regularization_term |-> 0]
    /\ adjusted_lrs = <<0, 0>>
    /\ reg_term_values = <<>>
    /\ loss_total_list = <<>>
    /\ loss_data_term_list = <<>>
    /\ loss_reg_term_list = <<>>
    /\ adjusted_lrs_list = <<>>
    /\ regularization_terms_csv = <<>>
    /\ saved_volumes = <<>>

InitFrom(c) ==
    /\ pc = "new"
    /\ ep = 0
    /\ volume_pred = InitialVolume
    /\ InitRest(c)

Init == \E c \in ShortConfigs : InitFrom(c)

InitSched == \E c \in ShortConfigs \cup ScheduleConfigs : InitFrom(c)

\* optic-axis columns handed to replace_nans: finite ones, and NaN in the
\* first, in another, and in every component
NanVectors ==
    {<<0, 0, 1>>, <<0, 1, 0>>, <<NaN, 0, 0>>, <<0, NaN, 0>>, <<0, 1, NaN>>,
     <<NaN, NaN, NaN>>}

\* normalize(torch.rand(3, k)): unit columns with non-negative components
RandUnitVectors == {<<1, 0, 0>>, <<0, 1, 0>>, <<0, 0, 1>>}

\* the inputs of a call replace_nans(volume, ep)
InitNans ==
    \E oa \in [1 .. NVox -> NanVectors], e \in {0, 1} :
        /\ pc = "replace_nans"
        /\ ep = e
        /\ volume_pred = [InitialVolume EXCEPT !.optic_axis = Some(oa)]
        /\ InitRest(Config(FALSE, FALSE, [p \in 1 .. NVox |-> TRUE], BaseParams))

\* retardance and azimuth values of a pixel handed to vector_loss
RetVals == {0, 1, 2}
AzimVals == 0 .. (2 * Pi - 1)

\* the inputs of a call vector_loss(ret_pred, azim_pred): the predicted images
\* and the targets
InitLoss ==
    \E rp \in [1 .. 2 -> RetVals], ap \in [1 .. 2 -> AzimVals],
       im \in ImagePairs :
        /\ pc = "vector_loss"
        /\ ep = 0
        /\ volume_pred = InitialVolume
        /\ err = ""
        /\ raised_in = ""
        /\ apply_volume_mask = FALSE
        /\ all_prop_elements = FALSE
        /\ rays_mask = [p \in 1 .. NVox |-> TRUE]
        /\ rays = RaysWithMask
        /\ vox_indices_file = "missing"
        /\ saved_vox_indices = FALSE
        /\ iteration_params = BaseParams
        /\ mask = <<>>
        /\ remove_large_arrs = FALSE
        /\ intensity_bool = FALSE
        /\ ret_img_meas = im.ret
        /\ azim_img_meas = im.azim
        /\ azim_img_pred = NoImage
        /\ volume_initial_guess = InitialVolume
        /\ optimizer = NoneT
        /\ scheduler = [best_inf |-> TRUE, best |-> 0, num_bad_epochs |-> 0,
                        last_epoch |-> 0]
        /\ initial_lr = <<0, 0>>
        /\ lr_local = <<0, 0>>
        /\ img_list = [ret |-> rp, azim |-> ap]
        /\ loss = [total |-> 0, data_term |-> 0, regularization_term |-> 0]
        /\ adjusted_lrs = <<0, 0>>
        /\ reg_term_values = <<>>
        /\ loss_total_list = <<>>
        /\ loss_data_term_list = <<>>
        /\ loss_reg_term_list = <<>>
        /\ adjusted_lrs_list = <<>>
        /\ regularization_terms_csv = <<>>
        /\ saved_volumes = <<>>

----------------------------------------------------------------------------
(* Actions *)

lists == <<loss_total_list, loss_data_term_list, loss_reg_term_list,
           adjusted_lrs_list>>
geometry == <<rays, vox_indices_file, saved_vox_indices>>
inputs == <<apply_volume_mask, all_prop_elements, rays_mask, volume_initial_guess,
            geometry>>
schedule == <<optimizer, scheduler, initial_lr, lr_local>>
iteration == <<img_list, loss, adjusted_lrs>>
files == <<regularization_terms_csv, saved_volumes>>
images == <<ret_img_meas, azim_img_meas, azim_img_pred>>

Raise(e) == pc' = "raised" /\ err' = e /\ raised_in' = pc
Goto(l) == pc' = l /\ UNCHANGED <<err, raised_in>>

\* voxel_mask_setup, the try block: reading the voxel-index file either
\* succeeds or raises; a malformed file makes pickle.load raise
\* UnpicklingError, EOFError or ValueError
LoadOutcomes(params, file) ==
    IF ~params.vox_indices_by_mla_idx_path.present THEN {"KeyError"}
    ELSE IF params.vox_indices_by_mla_idx_path.v = "" THEN {"ValueError"}
    ELSE IF file = "missing" THEN {"FileNotFoundError"}
    ELSE IF file = "malformed" THEN {"UnpicklingError", "EOFError", "ValueError"}
    ELSE {"loaded"}

\* except (KeyError, FileNotFoundError, ValueError)
CaughtByFallback(o) == o \in {"KeyError", "FileNotFoundError", "ValueError"}

\* how the constructor obtains the mask: from the ray tracer, from the ready
\* geometry, or per lenslet from the voxel-index file
MaskSetupOutcomes(r, params, file) ==
    IF r.has_mask THEN {"rays.mask"}
    ELSE IF r.MLA_volume_geometry_ready THEN {"filtered"}
    ELSE LoadOutcomes(params, file)

\* the outcomes that leave the constructor with an exception
MaskSetupAborts(o) ==
    o \notin {"rays.mask", "filtered", "loaded"} /\ ~CaughtByFallback(o)

\* an exclusion that takes the zero-retardance lenslets whatever the data
VoxListExcludingLensletsOnly(r, from_sim) == r.zero_ret_lenslet

\* vox_list_excluding: identify_voxels_repeated_zero_ret() for simulated
\* data, identify_voxels_zero_ret_lenslet() otherwise
VoxListExcluding(r, from_sim) ==
    IF from_sim THEN r.repeated_zero_ret ELSE r.zero_ret_lenslet

\* mask[sorted(vox_set - set(vox_list_excluding))] = True, over n voxels
LensletMask(r, from_sim, n) ==
    [p \in 1 .. n |->
        (p - 1) \in (r.nonzero_ret \ VoxListExcluding(r, from_sim))]

\* the mask the constructor ends up with
MaskOfOutcome(o, r, given, from_sim, n) ==
    IF o \in {"rays.mask", "filtered"} THEN given
    ELSE LensletMask(r, from_sim, n)

\* self.rays after the mask has been obtained
RaysAfterMaskSetup(r, o) ==
    [r EXCEPT !.has_mask = TRUE,
              !.vox_indices_by_mla_idx =
                  IF o = "loaded" THEN "loaded"
                  ELSE IF CaughtByFallback(o) THEN "stored"
                  ELSE @]

\* Reconstructor.__init__
Construct ==
    /\ pc = "new"
    /\ remove_large_arrs' = iteration_params.free_memory_by_del_large_arrays
    /\ IF ConflictingModes(iteration_params.free_memory_by_del_large_arrays,
                           apply_volume_mask)
       THEN /\ Raise("ValueError")
            /\ mask' = [p \in 1 .. Len(volume_initial_guess.Delta_n.v) |-> TRUE]
            /\ volume_pred' = volume_initial_guess
            /\ UNCHANGED <<intensity_bool, rays, saved_vox_indices>>
       ELSE \E o \in MaskSetupOutcomes(rays, iteration_params, vox_indices_file) :
            IF MaskSetupAborts(o)
            THEN /\ Raise(o)
                 /\ mask' = [p \in 1 .. Len(volume_initial_guess.Delta_n.v) |-> TRUE]
                 /\ volume_pred' = volume_initial_guess
                 /\ UNCHANGED <<intensity_bool, rays, saved_vox_indices>>
            ELSE /\ Goto("constructed")
                 /\ mask' = MaskOfOutcome(o, rays, rays_mask,
                                          iteration_params.from_simulation,
                                          Len(volume_initial_guess.Delta_n.v))
                 /\ rays' = RaysAfterMaskSetup(rays, o)
                 /\ saved_vox_indices' = (saved_vox_indices \/ CaughtByFallback(o))
                 /\ volume_pred' = ApplyMaskToVolume(volume_initial_guess, mask')
                 /\ intensity_bool' = (iteration_params.datafidelity = "intensity")
    /\ UNCHANGED <<apply_volume_mask, all_prop_elements, rays_mask,
                   volume_initial_guess, vox_indices_file, iteration_params,
                   schedule, ep, iteration, reg_term_values, lists, files,
                   images>>

\* reconstruct(), from its first line to the loop header
ReconstructSetup ==
    /\ pc = "constructed"
    /\ volume_initial_guess' = TurnOffInitialVolumeGradients(volume_initial_guess)
    /\ mask' = IF all_prop_elements THEN mask ELSE MaskAfterParameters(mask)
    /\ IF OptimizerRejected(iteration_params.optimizer)
       THEN /\ Raise("ValueError")
            /\ volume_pred' = VolumeForOptimizer(volume_pred, mask,
                                  all_prop_elements, remove_large_arrs,
                                  iteration_params.two_optic_axis_components)
            /\ UNCHANGED <<schedule, files>>
       ELSE /\ Goto("loop")
            /\ volume_pred' = PrepareVolumeForRecon(
                                  VolumeForOptimizer(volume_pred, mask,
                                      all_prop_elements, remove_large_arrs,
                                      iteration_params.two_optic_axis_components),
                                  iteration_params.two_optic_axis_components)
            /\ optimizer' = Some(<<iteration_params.lr_optic_axis,
                                   iteration_params.lr_birefringence>>)
            /\ scheduler' = [best_inf |-> TRUE, best |-> 0, num_bad_epochs |-> 0,
                             last_epoch |-> 0]
            /\ initial_lr' = <<iteration_params.lr_optic_axis,
                               iteration_params.lr_birefringence>>
            /\ regularization_terms_csv' = <<<<"ep", "L1">>>>
            /\ UNCHANGED <<lr_local, saved_volumes>>
    /\ UNCHANGED <<apply_volume_mask, all_prop_elements, rays_mask, geometry,
                   iteration_params, remove_large_arrs, intensity_bool, ep,
                   iteration, reg_term_values, lists, images>>

\* the loop header and the learning-rate warmup of one epoch
EpochBegin ==
    /\ pc = "loop"
    /\ ep < iteration_params.n_epochs
    /\ ep' = ep + 1
    /\ IF InWarmup(ep + 1)
       THEN /\ lr_local' = <<WarmupLr(initial_lr[1], ep + 1),
                             WarmupLr(initial_lr[2], ep + 1)>>
            /\ optimizer' = Some(lr_local')
       ELSE /\ lr_local' = optimizer.v
            /\ UNCHANGED optimizer
    /\ Goto("zero_grad")
    /\ UNCHANGED <<inputs, images, iteration_params, mask, remove_large_arrs,
                   intensity_bool, volume_pred, scheduler, initial_lr, iteration,
                   reg_term_values, lists, files>>

ZeroOrNone(g) == IF g.none THEN g ELSE Some(Zeros(Len(g.v)))

\* optimizer.zero_grad() / optimizer.zero_grad(set_to_none=True)
ZeroGradOf(vol, to_none) ==
    IF to_none
    THEN [vol EXCEPT !.Delta_n_grad = NoneT, !.optic_axis_grad = NoneT,
                     !.birefringence_active_grad = NoneT,
                     !.optic_axis_active_grad = NoneT,
                     !.optic_axis_planar_grad = NoneT]
    ELSE [vol EXCEPT !.Delta_n_grad = ZeroOrNone(@),
                     !.optic_axis_grad = ZeroOrNone(@),
                     !.birefringence_active_grad = ZeroOrNone(@),
                     !.optic_axis_active_grad = ZeroOrNone(@),
                     !.optic_axis_planar_grad =
                         IF @.none THEN @
                         ELSE Some([k \in 1 .. Len(@.v) |-> 0])]

ZeroGrad ==
    /\ pc = "zero_grad"
    /\ volume_pred' = ZeroGradOf(volume_pred, apply_volume_mask)
    /\ Goto("forward")
    /\ UNCHANGED <<inputs, images, iteration_params, mask, remove_large_arrs,
                   intensity_bool, schedule, ep, iteration, reg_term_values,
                   lists, files>>

\* rays.ray_trace_through_volume: the images, named by their data-fidelity value
Forward ==
    /\ pc = "forward"
    /\ \E d \in DataVals :
          /\ IF loss_data_term_list = <<>> THEN TRUE
             ELSE IF d = Last(loss_data_term_list) THEN TRUE
             ELSE Changes(loss_data_term_list) < MaxLossChanges
          /\ img_list' = d
    /\ Goto("loss")
    /\ UNCHANGED <<inputs, images, iteration_params, mask, remove_large_arrs,
                   intensity_bool, volume_pred, schedule, ep, loss, adjusted_lrs,
                   reg_term_values, lists, files>>

\* params["regularization_weight"] = params["regularization_weight"][0]
ParamsAfterLoss(params) ==
    IF params.regularization_weight.is_list
    THEN [params EXCEPT !.regularization_weight =
             [is_list |-> FALSE, v |-> <<params.regularization_weight.v[1]>>]]
    ELSE params

\* _compute_loss
LossCompute ==
    /\ pc = "loss"
    /\ iteration_params' = ParamsAfterLoss(iteration_params)
    /\ reg_term_values' = <<RegLoss(volume_pred)>>
    /\ loss' = [total |-> TotalLoss(img_list,
                              RegularizationTerm(iteration_params,
                                                 RegLoss(volume_pred))),
                data_term |-> img_list,
                regularization_term |->
                    RegularizationTerm(iteration_params, RegLoss(volume_pred))]
    /\ Goto("backward")
    /\ UNCHANGED <<inputs, images, mask, remove_large_arrs, intensity_bool,
                   volume_pred, schedule, ep, img_list, adjusted_lrs, lists, files>>

Fill(n, g) == [p \in 1 .. n |-> g]

\* loss.backward(): the gradient reaches the tensors that are being learned
BackwardOf(vol, g, ga) ==
    IF ~vol.indices_active.none
    THEN IF vol.optic_axis_planar_requires_grad
         THEN [vol EXCEPT
                 !.birefringence_active_grad =
                     Some(Fill(Len(vol.birefringence_active.v), g)),
                 !.optic_axis_planar_grad =
                     Some(Fill(Len(vol.optic_axis_planar.v), ga))]
         ELSE [vol EXCEPT
                 !.birefringence_active_grad =
                     Some(Fill(Len(vol.birefringence_active.v), g)),
                 !.optic_axis_active_grad =
                     Some(Fill(Len(vol.optic_axis_active.v), ga))]
    ELSE [vol EXCEPT
            !.Delta_n_grad = Some(Fill(Len(vol.Delta_n.v), g)),
            !.optic_axis_grad = Some(Fill(Len(vol.optic_axis.v), ga))]

Backward ==
    /\ pc = "backward"
    /\ \E g \in GradVals : \E ga \in AxisGradVals(g) :
           volume_pred' = BackwardOf(volume_pred, g, ga)
    /\ Goto(IF apply_volume_mask THEN "grad_mask" ELSE "step")
    /\ UNCHANGED <<inputs, images, iteration_params, mask, remove_large_arrs,
                   intensity_bool, schedule, ep, iteration, reg_term_values,
                   lists, files>>

\* self.volume_pred.Delta_n.grad *= self.mask
GradientMask ==
    /\ pc = "grad_mask"
    /\ IF volume_pred.Delta_n_grad.none
       THEN Raise("TypeError") /\ UNCHANGED volume_pred
       ELSE /\ Goto("step")
            /\ volume_pred' = [volume_pred EXCEPT !.Delta_n_grad =
                                  Some(MaskMul(volume_pred.Delta_n_grad.v, mask))]
    /\ UNCHANGED <<inputs, images, iteration_params, mask, remove_large_arrs,
                   intensity_bool, schedule, ep, iteration, reg_term_values,
                   lists, files>>

\* optimizer.step(): a tensor without gradient is left alone
OptimizerStepOf(vol) ==
    IF ~vol.indices_active.none
    THEN [vol EXCEPT
            !.birefringence_active =
                IF vol.birefringence_active_grad.none THEN @
                ELSE Some(StepBirAll(@.v, vol.birefringence_active_grad.v)),
            !.optic_axis_active =
                IF vol.optic_axis_active_grad.none THEN @
                ELSE Some(StepAxisAll(@.v, vol.optic_axis_active_grad.v)),
            !.optic_axis_planar =
                IF vol.optic_axis_planar_grad.none THEN @
                ELSE Some(StepPlanarAll(@.v, vol.optic_axis_planar_grad.v))]
    ELSE [vol EXCEPT
            !.Delta_n =
                IF vol.Delta_n_grad.none THEN @
                ELSE Some(StepBirAll(@.v, vol.Delta_n_grad.v)),
            !.optic_axis =
                IF vol.optic_axis_grad.none THEN @
                ELSE Some(StepAxisAll(@.v, vol.optic_axis_grad.v))]

ParamUpdate ==
    /\ pc = "step"
    /\ volume_pred' = OptimizerStepOf(volume_pred)
    /\ Goto("scheduler")
    /\ UNCHANGED <<inputs, images, iteration_params, mask, remove_large_arrs,
                   intensity_bool, schedule, ep, iteration, reg_term_values,
                   lists, files>>

\* scheduler.step(loss); adjusted_lrs = calculate_adjusted_lr(optimizer)
SchedulerStep ==
    /\ pc = "scheduler"
    /\ scheduler' = SchedulerAfter(loss.total, scheduler)
    /\ optimizer' = Some(LrAfter(loss.total, scheduler, optimizer.v))
    /\ adjusted_lrs' = optimizer'.v
    /\ Goto("project")
    /\ UNCHANGED <<inputs, images, iteration_params, mask, remove_large_arrs,
                   intensity_bool, volume_pred, initial_lr, lr_local, ep,
                   img_list, loss, reg_term_values, lists, files>>

\* fill_optaxis_component in the two-component mode, keep_optic_axis_on_sphere
ConstraintProject ==
    /\ pc = "project"
    /\ volume_pred' = ProjectOf(volume_pred,
                                iteration_params.two_optic_axis_components)
    /\ Goto("append")
    /\ UNCHANGED <<inputs, images, iteration_params, mask, remove_large_arrs,
                   intensity_bool, schedule, ep, iteration, reg_term_values,
                   lists, files>>

\* the azimuth image among the images the forward operator returns
AzimuthImageOf(img, n) == [p \in 1 .. n |-> 1 + (img % 2)]

\* self.azim_img_pred after one_iteration: store_results binds it to a new
\* array, the intensity branch binds it to self.azim_img_meas
PredictedAzimuthOf(intensity, img, n) ==
    IF intensity THEN MeasuredAzimuthItself ELSE OwnImage(AzimuthImageOf(img, n))

\* a store that overwrites the entry of the epoch before
StoreEntryOverwriting(list, x) ==
    IF list = <<>> THEN <<x>> ELSE [list EXCEPT ![Len(list)] = x]

\* self.loss_total_list.append(loss.item()), and the same for the other lists
StoreEntry(list, x) == Append(list, x)

\* store_results, or the four appends of the intensity branch
ResultAppend ==
    /\ pc = "append"
    /\ azim_img_pred' = PredictedAzimuthOf(intensity_bool, img_list,
                                           Len(azim_img_meas))
    /\ loss_total_list' = StoreEntry(loss_total_list, loss.total)
    /\ loss_data_term_list' = StoreEntry(loss_data_term_list, loss.data_term)
    /\ loss_reg_term_list' = StoreEntry(loss_reg_term_list, loss.regularization_term)
    /\ adjusted_lrs_list' = StoreEntry(adjusted_lrs_list, adjusted_lrs)
    /\ Goto("post")
    /\ UNCHANGED <<inputs, ret_img_meas, azim_img_meas, iteration_params, mask,
                   remove_large_arrs, intensity_bool, volume_pred, schedule, ep,
                   iteration, reg_term_values, files>>

RECURSIVE MaxSeq(_)
MaxSeq(s) == IF Len(s) = 1 THEN s[1] ELSE Max(s[1], MaxSeq(Tail(s)))

\* azim_damp_mask == 0, for azim_damp_mask = ret_img_meas / ret_img_meas.max():
\* the pixels without retardance (0 / 0 is NaN and compares unequal to 0)
DampedPixels(ret) == {p \in 1 .. Len(ret) : MaxSeq(ret) # 0 /\ ret[p] = 0}

\* img[azim_damp_mask == 0] = 0, in place
Damp(img, ret) ==
    [p \in 1 .. Len(img) |-> IF p \in DampedPixels(ret) THEN 0 ELSE img[p]]

\* reconstruct(), between one_iteration and visualize_and_save: every 20th
\* epoch of the intensity mode traces the rays again, then the predicted
\* azimuth is set to zero where the measured retardance is zero
AfterIteration ==
    /\ pc = "post"
    /\ LET pred == IF ep % 20 = 0 /\ intensity_bool
                   THEN OwnImage(AzimuthImageOf(img_list, Len(azim_img_meas)))
                   ELSE azim_img_pred
       IN  IF pred.alias
           THEN /\ azim_img_meas' = Damp(azim_img_meas, ret_img_meas)
                /\ azim_img_pred' = pred
           ELSE /\ azim_img_pred' = OwnImage(Damp(pred.v, ret_img_meas))
                /\ UNCHANGED azim_img_meas
    /\ Goto("visualize")
    /\ UNCHANGED <<inputs, ret_img_meas, iteration_params, mask, remove_large_arrs,
                   intensity_bool, volume_pred, schedule, ep, iteration,
                   reg_term_values, lists, files>>

SaveFreq(params) == params.save_freq

\* a cadence that saves at every epoch
IsCheckpointAlways(e, params) == TRUE

\* if ep % save_freq == 0
IsCheckpoint(e, params) == e % SaveFreq(params) = 0

\* a plot cadence of every second epoch
IsPlotEpochEven(e) == e % 2 = 0

\* if ep % 1 == 0: the plot, the loss csv and the regularization csv row
IsPlotEpoch(e) == e % 1 = 0

\* the full-grid birefringence when visualize_and_save plots it
VisualizeDelta_n(vol, remove) ==
    LET base == IF remove THEN Zeros(NVox) ELSE vol.Delta_n.v
    IN  IF ~vol.indices_active.none
        THEN Scatter(base, vol.indices_active.v, vol.birefringence_active.v)
        ELSE base

\* the full-grid optic axis when visualize_and_save saves the volume
VisualizeOpticAxis(vol, remove) ==
    LET base == IF remove THEN ZeroVecs(NVox) ELSE vol.optic_axis.v
    IN  IF ~vol.indices_active.none
        THEN Scatter(base, vol.indices_active.v, vol.optic_axis_active.v)
        ELSE base

SavedFile(e, dn, oa) == [ep |-> e, Delta_n |-> dn, optic_axis |-> oa]

\* device = volume.birefringence_active.device, in the memory-freeing mode:
\* only create_parameters_from_mask creates birefringence_active, so the read
\* raises AttributeError when reconstruct has not derived the active set
ActiveDeviceMissing(vol, remove) == remove /\ vol.birefringence_active.none

\* visualize_and_save
VisualizeAndSave ==
    /\ pc = "visualize"
    /\ IF ActiveDeviceMissing(volume_pred, remove_large_arrs)
       THEN Raise("AttributeError") /\ UNCHANGED <<volume_pred, files>>
       ELSE
       LET dn == VisualizeDelta_n(volume_pred, remove_large_arrs)
           oa == VisualizeOpticAxis(volume_pred, remove_large_arrs)
           cp == IsCheckpoint(ep, iteration_params)
       IN  /\ Goto("loop")
           /\ regularization_terms_csv' =
                  IF IsPlotEpoch(ep)
                  THEN Append(regularization_terms_csv, <<ep>> \o reg_term_values)
                  ELSE regularization_terms_csv
           /\ saved_volumes' =
                  IF cp THEN Append(saved_volumes, SavedFile(ep, dn, oa))
                  ELSE saved_volumes
           /\ volume_pred' =
                  [volume_pred EXCEPT
                      !.Delta_n = IF remove_large_arrs THEN NoneT ELSE Some(dn),
                      !.Delta_n_requires_grad =
                          IF remove_large_arrs THEN FALSE ELSE @,
                      !.optic_axis =
                          IF remove_large_arrs THEN NoneT
                          ELSE IF cp THEN Some(oa) ELSE @]
    /\ UNCHANGED <<inputs, images, iteration_params, mask, remove_large_arrs,
                   intensity_bool, schedule, ep, iteration, reg_term_values,
                   lists>>

\* the final scatter of the memory-freeing mode
FinalScatter(vol) ==
    [vol EXCEPT
        !.Delta_n = Some(Scatter(Zeros(NVox), vol.indices_active.v,
                                 vol.birefringence_active.v)),
        !.Delta_n_requires_grad = FALSE,
        !.optic_axis = Some(Scatter(ZeroVecs(NVox), vol.indices_active.v,
                                    vol.optic_axis_active.v)),
        !.optic_axis_requires_grad = FALSE]

\* the full grid after the loop
FinalVolume(vol, remove) == IF remove THEN FinalScatter(vol) ELSE vol

\* reconstruct(), after the loop
Finalize ==
    /\ pc = "loop"
    /\ ep = iteration_params.n_epochs
    /\ IF ActiveDeviceMissing(volume_pred, remove_large_arrs)
       THEN Raise("AttributeError") /\ UNCHANGED <<volume_pred, saved_volumes>>
       ELSE /\ volume_pred' = FinalVolume(volume_pred, remove_large_arrs)
            /\ IF ep = 0
               THEN Raise("UnboundLocalError") /\ UNCHANGED saved_volumes
               ELSE /\ Goto("done")
                    /\ saved_volumes' =
                           Append(saved_volumes,
                                  SavedFile(ep, volume_pred'.Delta_n.v,
                                            volume_pred'.optic_axis.v))
    /\ UNCHANGED <<inputs, images, iteration_params, mask, remove_large_arrs,
                   intensity_bool, schedule, ep, iteration, reg_term_values, lists,
                   regularization_terms_csv>>

\* torch.isnan(volume.optic_axis[0, :]): the columns replace_nans selects
IsNanColumn(v) == IsNan(v[1])

\* volume.optic_axis[:, isnan(volume.optic_axis[0, :])] = replacement_vecs
ReplaceNansOf(t, repl) ==
    [p \in 1 .. Len(t) |-> IF IsNanColumn(t[p]) THEN repl[p] ELSE t[p]]

\* replace_nans(volume, ep); reconstruct() and one_iteration() never call it
ReplaceNans ==
    /\ pc = "replace_nans"
    /\ \E repl \in [1 .. Len(volume_pred.optic_axis.v) -> RandUnitVectors] :
           volume_pred' =
               [volume_pred EXCEPT !.optic_axis = Some(ReplaceNansOf(@.v, repl))]
    /\ Goto("replaced")
    /\ UNCHANGED <<inputs, images, iteration_params, mask, remove_large_arrs,
                   intensity_bool, schedule, ep, iteration, reg_term_values,
                   lists, files>>

Next ==
    \/ Construct
    \/ ReconstructSetup
    \/ EpochBegin
    \/ ZeroGrad
    \/ Forward
    \/ LossCompute
    \/ Backward
    \/ GradientMask
    \/ ParamUpdate
    \/ SchedulerStep
    \/ ConstraintProject
    \/ ResultAppend
    \/ AfterIteration
    \/ VisualizeAndSave
    \/ Finalize

Spec == Init /\ [][Next]_vars

SpecSched == InitSched /\ [][Next]_vars

\* data_loss = self.vector_loss(ret_pred, azim_pred)
VectorLossCall ==
    /\ pc = "vector_loss"
    /\ loss' = [loss EXCEPT !.data_term =
                    VectorLoss(img_list.ret, img_list.azim,
                               ret_img_meas, azim_img_meas)]
    /\ Goto("returned")
    /\ UNCHANGED <<inputs, images, iteration_params, mask, remove_large_arrs,
                   intensity_bool, volume_pred, schedule, ep, img_list,
                   adjusted_lrs, reg_term_values, lists, files>>

NextNans == ReplaceNans

SpecNans == InitNans /\ [][NextNans]_vars

NextLoss == VectorLossCall

SpecLoss == InitLoss /\ [][NextLoss]_vars

----------------------------------------------------------------------------
(* Properties *)

n_epochs == iteration_params.n_epochs

\* reconstruct() has returned or raised after its setup
ReconstructEnded ==
    pc = "done" \/ (pc = "raised" /\ raised_in \notin {"new", "constructed"})

\* C1: in every call of one_iteration the steps run in this order, each exactly
\* once: zero gradients, forward pass, loss, backward pass, gradient masking
\* (only when requested), optimizer step, scheduler step, constraint
\* projection, result append.  Refuted: the gradient masking of C23 raises.
C1_StepsInOrder ==
    [][ /\ (pc = "zero_grad" => pc' = "forward")
        /\ (pc = "forward" => pc' = "loss")
        /\ (pc = "loss" => pc' = "backward")
        /\ (pc = "backward" =>
                pc' = IF apply_volume_mask THEN "grad_mask" ELSE "step")
        /\ (pc = "grad_mask" => pc' = "step")
        /\ (pc = "step" => pc' = "scheduler")
        /\ (pc = "scheduler" => pc' = "project")
        /\ (pc = "project" => pc' = "append")
        /\ (pc = "append" => pc' = "post" /\ Len(loss_total_list') = ep) ]_vars

\* C2: reconstruct runs exactly n_epochs epochs, each with one one_iteration
\* call followed by one visualize_and_save call.  Refuted: the first epoch of a
\* run with apply_volume_mask ends in the TypeError of C23.
C2_RunsAllEpochs ==
    ReconstructEnded =>
        /\ ep = n_epochs
        /\ Len(loss_total_list) = n_epochs
        /\ Len(regularization_terms_csv) = n_epochs + 1

\* the full grid holds the active values at the active indices
GridHoldsActive(vol) ==
    \A k \in 1 .. Len(vol.indices_active.v) :
        /\ At(vol.Delta_n.v, vol.indices_active.v[k]) = vol.birefringence_active.v[k]
        /\ At(vol.optic_axis.v, vol.indices_active.v[k]) = vol.optic_axis_active.v[k]

\* C3: when reconstruct returns, the full-grid Delta_n and optic_axis at the
\* active indices equal the active tensors, for every n_epochs >= 1, every
\* save_freq, and with memory freeing on or off.  Refuted: with memory freeing
\* off the optic axis is scattered only at checkpoint epochs.
C3_FinalGridMatchesActive ==
    (pc = "done" /\ ~volume_pred.indices_active.none) =>
        GridHoldsActive(volume_pred)

C5_ConflictRaisesValueError ==
    (iteration_params.free_memory_by_del_large_arrays /\ apply_volume_mask) =>
        /\ pc \in {"new", "raised"}
        /\ pc = "raised" => (err = "ValueError" /\ raised_in = "new")
        /\ optimizer.none /\ ep = 0 /\ loss_total_list = <<>>

\* the constructor has refused the two modes together
C5_Witness ==
    /\ iteration_params.free_memory_by_del_large_arrays /\ apply_volume_mask
    /\ pc = "raised" /\ err = "ValueError" /\ raised_in = "new"

C7_FirstEpochLrIsStartFraction ==
    (pc = "step" /\ ep = 1) =>
        \A g \in 1 .. 2 :
            100 * optimizer.v[g] = warmup_start_proportion * initial_lr[g]

\* C8: at epoch ep = warmup_epochs the learning rate of each parameter group
\* used in the optimizer step is the group's initial learning rate.  Refuted:
\* the ramp stops at ep = warmup_epochs - 1, at 0.91 times the initial rate.
C8_WarmupReachesNominal ==
    (pc = "step" /\ ep = warmup_epochs) =>
        \A g \in 1 .. 2 : optimizer.v[g] = initial_lr[g]

ConstantList(s) == \A i, j \in 1 .. Len(s) : s[i] = s[j]

\* a learning rate whose half is not below the floor
Halvable(lr) == lr >= 2 * min_lr

\* C9 as stated: of the first 12 scheduler.step calls on identical total
\* losses only the 11th changes the learning rates, and it halves them
C9_HalvingAtEleventhCall ==
    (pc = "post" /\ ConstantList(loss_total_list) /\ Len(loss_total_list) <= 12) =>
        \A g \in 1 .. 2 :
            Halvable(lr_local[g]) =>
                IF Len(loss_total_list) = 11
                THEN 2 * optimizer.v[g] = lr_local[g]
                ELSE optimizer.v[g] = lr_local[g]

\* C9, amended: of the first 12 scheduler.step calls on identical total losses
\* only the 12th changes the learning rates, and it halves every rate whose
\* half is not below the floor
C9_HalvingAtTwelfthCall ==
    (pc = "post" /\ ConstantList(loss_total_list) /\ Len(loss_total_list) <= 12) =>
        \A g \in 1 .. 2 :
            IF Len(loss_total_list) = 12
            THEN Halvable(lr_local[g]) => 2 * optimizer.v[g] = lr_local[g]
            ELSE optimizer.v[g] = lr_local[g]

\* twelve identical total losses have been fed and a rate has been halved
C9_Witness ==
    /\ pc = "post"
    /\ Len(loss_total_list) = 12 /\ ConstantList(loss_total_list)
    /\ Halvable(lr_local[1]) /\ 2 * optimizer.v[1] = lr_local[1]

\* a scheduler.step call that takes the plateau branch: the bad-epoch count
\* has reached patience, the loss is again no better, and the count restarts
PlateauReduction ==
    /\ pc = "scheduler"
    /\ scheduler.num_bad_epochs = patience
    /\ scheduler'.num_bad_epochs = 0
    /\ scheduler'.best = scheduler.best

\* C10 as stated: every plateau reduction multiplies the learning rate of
\* every parameter group by 0.5, and no scheduler step takes a learning rate
\* that is at least 1e-6 below 1e-6
C10_ReductionHalvesEveryRate ==
    [][ pc = "scheduler" =>
            \A g \in 1 .. 2 :
                /\ PlateauReduction => 2 * optimizer'.v[g] = optimizer.v[g]
                /\ optimizer.v[g] >= min_lr => optimizer'.v[g] >= min_lr ]_vars

\* C10, amended: a plateau reduction halves a learning rate of at least 2e-6,
\* sets a rate between 1e-6 + 1e-8 and 2e-6 to the floor 1e-6, and leaves any
\* lower rate unchanged; a scheduler step that is no plateau reduction leaves
\* every rate unchanged; no scheduler step takes a rate that is at least 1e-6
\* below 1e-6
C10_ReductionHalvesDownToFloor ==
    [][ pc = "scheduler" =>
            \A g \in 1 .. 2 :
                LET old == optimizer.v[g]
                    new == optimizer'.v[g]
                IN  /\ PlateauReduction =>
                           /\ old >= 2 * min_lr => 2 * new = old
                           /\ (old > min_lr + eps /\ old < 2 * min_lr) => new = min_lr
                           /\ old <= min_lr + eps => new = old
                    /\ ~PlateauReduction => new = old
                    /\ old >= min_lr => new >= min_lr ]_vars

\* a plateau reduction has halved one rate and set the other to the floor
C10_Witness ==
    /\ pc = "project"
    /\ scheduler.last_epoch > patience /\ scheduler.num_bad_epochs = 0
    /\ 2 * optimizer.v[1] = lr_local[1]
    /\ lr_local[2] > min_lr + eps /\ lr_local[2] < 2 * min_lr
    /\ optimizer.v[2] = min_lr

\* the number of True entries of a mask
ActiveCount(m) == Cardinality({p \in 1 .. Len(m) : m[p]})

\* the mask {1, 4, 7} of 10 voxels
ExampleMask == [p \in 1 .. 10 |-> (p - 1) \in {1, 4, 7}]

ExampleVolume ==
    CreateParametersFromMask(VolumeOf(Zeros(10), ZeroVecs(10)), ExampleMask, FALSE)

\* C11: create_parameters_from_mask, for a mask over n voxels with k True
\* entries: indices_active lists the True positions in ascending order, the
\* active birefringence and optic-axis tensors have k entries, the inverse
\* lookup has n + 1 entries, maps the i-th True position to i (0-based) and
\* holds -1 everywhere else; the mask {1, 4, 7} of 10 gives 1->0, 4->1, 7->2
C11_ActiveSetFromMask ==
    /\ ~volume_pred.indices_active.none =>
           LET act == volume_pred.indices_active.v
               idx == volume_pred.active_idx2spatial_idx_tensor.v
               n == Len(mask)
               k == ActiveCount(mask)
           IN  /\ Len(act) = k
               /\ \A i \in 1 .. k : act[i] \in 0 .. n - 1 /\ mask[act[i] + 1]
               /\ \A i, j \in 1 .. k : i < j => act[i] < act[j]
               /\ Len(volume_pred.birefringence_active.v) = k
               /\ Len(volume_pred.optic_axis_active.v) = k
               /\ Len(idx) = n + 1
               /\ \A i \in 1 .. k : At(idx, act[i]) = i - 1
               /\ \A q \in 0 .. n :
                      (\A i \in 1 .. k : act[i] # q) => At(idx, q) = -1
    /\ ExampleVolume.indices_active.v = <<1, 4, 7>>
    /\ ExampleVolume.active_idx2spatial_idx_tensor.v =
           <<-1, 0, -1, -1, 1, -1, -1, 2, -1, -1, -1>>
    /\ Len(ExampleVolume.birefringence_active.v) = 3
    /\ Len(ExampleVolume.optic_axis_active.v) = 3

\* an active set whose first active voxel is not the first voxel
C11_Witness ==
    /\ pc = "loop"
    /\ ~volume_pred.indices_active.none
    /\ ~mask[1]
    /\ Len(volume_pred.indices_active.v) >= 1
    /\ At(volume_pred.active_idx2spatial_idx_tensor.v,
          volume_pred.indices_active.v[1]) = 0

\* the optic axes the optimizer works on
OptimisedAxes(vol) ==
    IF ~vol.indices_active.none THEN vol.optic_axis_active.v ELSE vol.optic_axis.v

UnitNorm(v) == ~HasNan(v) /\ Norm2(v) = 1

AllUnitNorm(t) == \A p \in 1 .. Len(t) : UnitNorm(t[p])

\* C12: after every constraint projection (at the end of each one_iteration
\* and in prepare_volume_for_recon) every active voxel's optic-axis vector
\* has unit Euclidean norm.  Refuted: a NaN axis is never repaired (C15) and
\* stays NaN through the projection.
C12_UnitNormAfterProjection ==
    [][ (pc = "project" \/ (pc = "constructed" /\ pc' = "loop")) =>
            AllUnitNorm(OptimisedAxes(volume_pred')) ]_vars

\* C13: during reconstruct the voxel mask is never modified: after any
\* number of epochs self.mask equals the mask that the constructor set
C13_MaskImmutable ==
    [][ pc # "new" => mask' = mask ]_vars

\* a run over a mask with active and inactive voxels has finished its epochs
C13_Witness ==
    /\ pc = "done" /\ ep >= 1
    /\ ~all_prop_elements
    /\ mask = rays_mask
    /\ \E p, q \in 1 .. Len(mask) : mask[p] /\ ~mask[q]

\* C14: after replace_nans every optic-axis vector that held a NaN in any
\* component is finite and unit-norm, and every vector that held no NaN is
\* unchanged.  Refuted: only the first component is tested for NaN.
C14_ReplaceNansRepairsEveryNan ==
    [][ pc = "replace_nans" =>
            \A p \in 1 .. Len(volume_pred.optic_axis.v) :
                LET old == volume_pred.optic_axis.v[p]
                    new == volume_pred'.optic_axis.v[p]
                IN  /\ HasNan(old) => UnitNorm(new)
                    /\ ~HasNan(old) => new = old ]_vars

\* C15: when non-finite values appear in the optic-axis parameter after a
\* backward pass during reconstruct, each non-finite axis vector is replaced
\* by a random unit vector and the run continues: an iteration never ends
\* with a non-finite axis.  Refuted: nothing in the loop calls replace_nans.
C15_NanRecoveredInIteration ==
    pc \in {"append", "post", "visualize"} =>
        \A p \in 1 .. Len(OptimisedAxes(volume_pred)) :
            ~HasNan(OptimisedAxes(volume_pred)[p])

\* the voxel-index mapping cannot be read: no path, an empty path, no file,
\* or a malformed file
BadMapping ==
    \/ ~iteration_params.vox_indices_by_mla_idx_path.present
    \/ iteration_params.vox_indices_by_mla_idx_path.v = ""
    \/ vox_indices_file \in {"missing", "malformed"}

\* the constructor is about to build the mask per lenslet
PerLensletMaskConstruction ==
    /\ pc = "new"
    /\ ~(iteration_params.free_memory_by_del_large_arrays /\ apply_volume_mask)
    /\ ~rays.has_mask
    /\ ~rays.MLA_volume_geometry_ready

\* C16: in per-lenslet mask construction, when the voxel-index mapping file
\* is missing, its path is absent or empty, or the file is malformed,
\* construction does not abort: the mapping is recomputed, written to
\* config_parameters/vox_indices_by_mla_idx.pkl, and the mask is built from
\* it.  Refuted: pickle.load on a malformed file raises an exception the
\* except clause does not name.
C16_BadMappingFallsBack ==
    [][ (PerLensletMaskConstruction /\ BadMapping) =>
            /\ pc' = "constructed"
            /\ rays'.vox_indices_by_mla_idx = "stored"
            /\ saved_vox_indices'
            /\ mask' = LensletMask(rays, iteration_params.from_simulation,
                                   Len(volume_initial_guess.Delta_n.v)) ]_vars

\* the epochs whose visualize_and_save call has returned
CompletedEpochs ==
    IF pc \in {"loop", "done"} \/ raised_in = "loop" \/ ep = 0 THEN ep ELSE ep - 1

\* the checkpoint epochs among 1 .. k, ascending
CheckpointEpochs(k, sf) ==
    SelectSeq([e \in 1 .. k |-> e], LAMBDA e : e % sf = 0)

SavedEpochs == [i \in 1 .. Len(saved_volumes) |-> saved_volumes[i].ep]

\* C17: during reconstruct the current volume is persisted at exactly the
\* epochs ep with ep % save_freq == 0, and once more after the last epoch
C17_SavedAtCheckpointsAndEnd ==
    SavedEpochs =
        CheckpointEpochs(CompletedEpochs, iteration_params.save_freq)
            \o (IF pc = "done" THEN <<n_epochs>> ELSE <<>>)

\* two epochs with save_freq 2: nothing saved at epoch 1, epoch 2 saved at
\* the checkpoint and again at the end
C17_Witness ==
    /\ pc = "done"
    /\ iteration_params.save_freq = 2
    /\ SavedEpochs = <<2, 2>>

\* the epochs of the data rows of regularization_terms.csv
CsvEpochs ==
    [i \in 1 .. Len(regularization_terms_csv) - 1 |->
        regularization_terms_csv[i + 1][1]]

\* C18 as stated: the regularization csv has the header row and then exactly
\* one data row for each checkpoint epoch
C18_RowPerCheckpointEpoch ==
    regularization_terms_csv # <<>> =>
        /\ regularization_terms_csv[1] = <<"ep", "L1">>
        /\ CsvEpochs = CheckpointEpochs(CompletedEpochs, iteration_params.save_freq)

\* C18, amended: the regularization csv has the header row and then exactly
\* one data row for every epoch whose visualize_and_save call has run,
\* checkpoint epoch or not
C18_RowPerEpoch ==
    regularization_terms_csv # <<>> =>
        /\ regularization_terms_csv[1] = <<"ep", "L1">>
        /\ CsvEpochs = [e \in 1 .. CompletedEpochs |-> e]

\* epoch 1 of a run with save_freq 2 has written its row
C18_Witness ==
    /\ pc = "loop" /\ ep = 1
    /\ iteration_params.save_freq = 2
    /\ CsvEpochs = <<1>>
    /\ saved_volumes = <<>>

\* C19: the caller's iteration-parameter dictionary is never modified by the
\* Reconstructor, for a float and for a list regularization_weight.
\* Refuted: _compute_loss replaces a list weight by its first element.
C19_ParamsNeverModified ==
    [][ iteration_params' = iteration_params ]_vars

C21_InactiveVoxelsZero ==
    (pc = "done" /\ ~volume_pred.indices_active.none) =>
        \A p \in 1 .. Len(mask) :
            ~mask[p] =>
                /\ volume_pred.Delta_n.v[p] = 0
                /\ volume_pred.optic_axis.v[p] = <<0, 0, 0>>

\* C28: reconstruct never modifies the measured retardance and azimuth
\* images, in the retardance/azimuth and in the intensity data-fidelity mode.
\* Refuted: in the intensity mode self.azim_img_pred is the measured azimuth
\* image itself, and reconstruct zeroes it where the retardance is zero.
C28_MeasuredImagesUntouched ==
    [][ ret_img_meas' = ret_img_meas /\ azim_img_meas' = azim_img_meas ]_vars

\* the azimuth image with pi added to every pixel
AzimPlusPi(azim) == [p \in 1 .. Len(azim) |-> azim[p] + Pi]

\* C22: the vector-form data term is unchanged when pi is added to the
\* predicted azimuth: vector_loss(ret, azim) equals vector_loss(ret, azim + pi)
\* for every retardance and azimuth input and every target
C22_VectorLossPeriodic ==
    [][ pc = "vector_loss" =>
            loss'.data_term =
                VectorLoss(img_list.ret, AzimPlusPi(img_list.azim),
                           ret_img_meas, azim_img_meas) ]_vars

\* a call with a nonzero loss whose prediction has retardance at an azimuth
\* that is no multiple of pi / 2
C22_Witness ==
    /\ pc = "returned"
    /\ loss.data_term > 0
    /\ \E p \in 1 .. Len(img_list.ret) :
           img_list.ret[p] > 0 /\ img_list.azim[p] % 2 = 1

\* C23: when a voxel gradient mask is requested (apply_volume_mask), in every
\* iteration the birefringence gradient of every voxel outside the mask is
\* zero when the optimizer step runs, and the iteration goes on to that
\* step, with all_prop_elements and with the active parameters.  Refuted:
\* with the active parameters Delta_n has no gradient and the masking raises
\* TypeError.
C23_GradientMaskedAtStep ==
    [][ (apply_volume_mask /\ pc = "grad_mask") =>
            /\ pc' = "step"
            /\ ~volume_pred'.Delta_n_grad.none
            /\ \A p \in 1 .. Len(mask) :
                   ~mask[p] => volume_pred'.Delta_n_grad.v[p] = 0 ]_vars

\* the epochs whose one_iteration call has returned
CompletedIterations ==
    IF pc \in {"zero_grad", "forward", "loss", "backward", "grad_mask", "step",
               "scheduler", "project", "append"}
       \/ (pc = "raised" /\ raised_in = "grad_mask")
    THEN ep - 1
    ELSE ep

\* list b is list a, possibly with entries appended
Extends(a, b) == Len(b) >= Len(a) /\ SubSeq(b, 1, Len(a)) = a

\* C24: after epoch k of reconstruct, loss_total_list, loss_data_term_list,
\* loss_reg_term_list and adjusted_lrs_list each hold exactly k entries, and
\* no step changes or removes an entry of an earlier epoch, in the
\* retardance/azimuth and in the intensity data-fidelity mode
C24_ListsAppendOnly ==
    /\ [](/\ Len(loss_total_list) = CompletedIterations
          /\ Len(loss_data_term_list) = CompletedIterations
          /\ Len(loss_reg_term_list) = CompletedIterations
          /\ Len(adjusted_lrs_list) = CompletedIterations)
    /\ [][ /\ Extends(loss_total_list, loss_total_list')
           /\ Extends(loss_data_term_list, loss_data_term_list')
           /\ Extends(loss_reg_term_list, loss_reg_term_list')
           /\ Extends(adjusted_lrs_list, adjusted_lrs_list') ]_vars

\* two epochs of the intensity mode have stored two different losses
C24_Witness ==
    /\ pc = "done" /\ ep = 2
    /\ intensity_bool
    /\ Len(loss_total_list) = 2 /\ Len(adjusted_lrs_list) = 2
    /\ loss_total_list[1] # loss_total_list[2]

\* reconstruct has derived the active set and keeps the full grid
ActiveSetDerived ==
    /\ ~volume_pred.indices_active.none
    /\ ~all_prop_elements
    /\ ~remove_large_arrs

\* C25 as stated: once reconstruct has derived the active set (memory
\* freeing off), birefringence_active and optic_axis_active require gradient
\* tracking and the full-grid Delta_n and optic_axis do not, in the three-
\* and in the two-component mode
C25_ActiveTensorsTrackGradients ==
    ActiveSetDerived =>
        /\ volume_pred.birefringence_active_requires_grad
        /\ volume_pred.optic_axis_active_requires_grad
        /\ ~volume_pred.Delta_n_requires_grad
        /\ ~volume_pred.optic_axis_requires_grad

\* C25, amended: once reconstruct has derived the active set (memory freeing
\* off), birefringence_active requires gradient tracking, and so does the
\* optic-axis tensor that is optimized: optic_axis_active in the
\* three-component mode, optic_axis_planar in the two-component mode, where
\* optic_axis_active is derived as a slice without gradient tracking; the
\* full-grid Delta_n and optic_axis do not require it
C25_TrainableTensorsTrackGradients ==
    ActiveSetDerived =>
        /\ volume_pred.birefringence_active_requires_grad
        /\ IF iteration_params.two_optic_axis_components
           THEN /\ volume_pred.optic_axis_planar_requires_grad
                /\ ~volume_pred.optic_axis_planar.none
                /\ volume_pred.members_to_learn =
                       <<"birefringence_active", "optic_axis_planar">>
           ELSE /\ volume_pred.optic_axis_active_requires_grad
                /\ volume_pred.members_to_learn =
                       <<"birefringence_active", "optic_axis_active">>
        /\ ~volume_pred.Delta_n_requires_grad
        /\ ~volume_pred.optic_axis_requires_grad

\* the two-component mode has derived an active set with one voxel
C25_Witness ==
    /\ pc = "loop"
    /\ ActiveSetDerived
    /\ iteration_params.two_optic_axis_components
    /\ Len(volume_pred.optic_axis_planar.v) >= 1
    /\ volume_pred.optic_axis_planar_requires_grad
    /\ ~volume_pred.optic_axis_active_requires_grad

\* the positions inside a one_iteration call
InOneIteration ==
    pc \in {"zero_grad", "forward", "loss", "backward", "grad_mask", "step",
            "scheduler", "project", "append"}

BuiltPerLenslet ==
    /\ pc # "new" /\ raised_in # "new"
    /\ rays.vox_indices_by_mla_idx \in {"loaded", "stored"}

\* C27: in per-lenslet mask construction the mask is true exactly for the
\* voxels touched by at least one nonzero-retardance ray minus the exclusion
\* set, which is the repeated-zero-retardance voxels when from_simulation is
\* true and the zero-retardance-lenslet voxels otherwise
C27_LensletMaskIsSetDifference ==
    BuiltPerLenslet =>
        /\ Len(mask) = Len(volume_initial_guess.Delta_n.v)
        /\ \A v \in 0 .. Len(mask) - 1 :
               At(mask, v) <=>
                   /\ v \in rays.nonzero_ret
                   /\ v \notin (IF iteration_params.from_simulation
                                 THEN rays.repeated_zero_ret
                                 ELSE rays.zero_ret_lenslet)

\* simulated data: a voxel is excluded for its repeated zero-retardance rays,
\* another one is kept although it belongs to a zero-retardance lenslet
C27_Witness ==
    /\ BuiltPerLenslet
    /\ iteration_params.from_simulation
    /\ \E v, w \in 0 .. Len(mask) - 1 :
           /\ v \in rays.nonzero_ret /\ v \in rays.repeated_zero_ret
           /\ ~At(mask, v)
           /\ w \in rays.zero_ret_lenslet /\ At(mask, w)

\* the scheduler step of the current epoch has changed a learning rate
ReducedInThisEpoch == ep >= 1 /\ ~optimizer.none /\ optimizer.v # lr_local

\* C29: a learning-rate reduction made by the plateau scheduler is never
\* overwritten by the warmup schedule: no reduction occurs at an epoch
\* ep < warmup_epochs, and from the last warmup epoch on nothing but a
\* scheduler step changes the learning rates, so the reduced rates are used
\* in every later epoch until the next reduction
C29_ReductionSurvivesWarmup ==
    /\ [](ReducedInThisEpoch => ep >= warmup_epochs)
    /\ [][ (ep >= warmup_epochs - 1 /\ pc # "scheduler") =>
               /\ optimizer' = optimizer
               /\ (pc = "loop" /\ pc' = "zero_grad") => lr_local' = optimizer.v ]_vars

\* the rates reduced in epoch 12 are the ones of the optimizer step of epoch 13
C29_Witness ==
    /\ pc = "step" /\ ep = 13
    /\ adjusted_lrs_list[12] # adjusted_lrs_list[11]
    /\ optimizer.v = adjusted_lrs_list[12]
    /\ lr_local = optimizer.v

\* control has left the epoch loop of reconstruct()
LeftEpochLoop == pc = "done" \/ (pc = "raised" /\ raised_in = "loop")

\* C30: reconstruct terminates normally and persists a final volume for every
\* n_epochs >= 0, n_epochs = 0 included: once control has left the epoch loop
\* the run has returned and the last saved file is the final volume
C30_TerminatesAndSavesFinalVolume ==
    LeftEpochLoop =>
        /\ pc = "done"
        /\ saved_volumes # <<>>
        /\ saved_volumes[Len(saved_volumes)] =
               SavedFile(iteration_params.n_epochs, volume_pred.Delta_n.v,
                         volume_pred.optic_axis.v)

====
